---- MODULE Spec2Model ----
(***************************************************************************)
(* Model of src/backend/API/ap.py: the "Mini Threads" API.  The relational *)
(* store (tables user, follow, post), the request handlers that read and   *)
(* write it, the bearer-token gate and the token issue/validate pair.      *)
(*                                                                         *)
(* Handlers are plain `def` FastAPI endpoints, which run on a thread pool, *)
(* and every session.exec / session.commit is a database round trip of its *)
(* own: a handler that reads and then writes is modelled as two steps, so  *)
(* that other requests can run between its read and its write.             *)
(***************************************************************************)
EXTENDS Integers, Sequences, FiniteSets, TLC

VARIABLES
    users,      \* table user: sequence of rows, a row's id is its index (rows are never deleted)
    follows,    \* table follow: set of rows [id, follower_id, followee_id]
    posts,      \* table post: sequence of rows [author_id, created_at], id = index
    req,        \* per worker thread: the request it is in the middle of
    resp,       \* the response most recently sent to a client
    now,        \* datetime.utcnow(), in minutes
    issued,     \* every token create_access_token has returned so far
    subIsChecked, \* whether the installed jwt.decode type-checks the "sub" claim
    scalarRows    \* whether Session.exec yields the rows of a one-column select as scalars

vars == <<users, follows, posts, req, resp, now, issued, subIsChecked, scalarRows>>

-----------------------------------------------------------------------------
(* Bounds of the model *)

NUsers == 2         \* registered users in the social-graph specifications
NThreads == 2       \* worker threads serving requests concurrently
MaxPosts == 3       \* posts created in one behaviour
MaxTime == 1        \* created_at values are 0..MaxTime
MaxPage == 2        \* limit and offset are 0..MaxPage
MaxFollowId == 3    \* follow rows get ids up to MaxFollowId
MaxSeqPosts == 2    \* posts created in one behaviour of SeqSpec
MaxTimeline == 4    \* posts created in one behaviour of TimelineSpec
NPasswords == 2     \* distinct passwords clients send
MaxIssueTime == 1   \* tokens are issued at times 0..MaxIssueTime

Threads == 1..NThreads
Times == 0..MaxTime
PageArgs == 0..MaxPage

Max(S) == CHOOSE x \in S : \A y \in S : y <= x
Min2(a, b) == IF a <= b THEN a ELSE b

-----------------------------------------------------------------------------
(* Responses *)

HTTPException(status_code, detail) == [status |-> status_code, detail |-> detail]

SelfFollow == HTTPException(400, "Can't follow yourself")
TargetNotFound == HTTPException(404, "User not found")
AlreadyFollowing == HTTPException(400, "Already following")
NotFollowing == HTTPException(404, "Not following")
Followed == [status |-> 200, detail |-> "followed"]
Unfollowed == [status |-> 200, detail |-> "unfollowed"]

NoResp == [op |-> "none"]
Idle == [pc |-> "idle"]

-----------------------------------------------------------------------------
(* The store *)

UserIds == DOMAIN users

\* session.get(User, id)
UserExists(id) == id \in UserIds

\* SQLite gives a new row of an INTEGER PRIMARY KEY table the largest id in
\* use plus one (the tables are created without AUTOINCREMENT).
NextId(rows) == IF rows = {} THEN 1 ELSE Max({r.id : r \in rows}) + 1

\* select(Follow).where(follower_id == a, followee_id == b)
Edges(a, b) == {r \in follows : r.follower_id = a /\ r.followee_id = b}

\* .first() of that select: the row the scan meets first, the one of least id
FirstEdge(a, b) == CHOOSE r \in Edges(a, b) : \A s \in Edges(a, b) : r.id <= s.id

-----------------------------------------------------------------------------
(* follow *)

NoError == [status |-> 0, detail |-> ""]

\* follow without its first check: a user may follow themself.
FollowErrorNoSelfCheck(cu, user_id) ==
    IF ~UserExists(user_id) THEN TargetNotFound
    ELSE IF Edges(cu, user_id) # {} THEN AlreadyFollowing
    ELSE NoError

\* The checks of follow, in the order the handler makes them.
FollowError(cu, user_id) ==
    IF user_id = cu THEN SelfFollow
    ELSE IF ~UserExists(user_id) THEN TargetNotFound
    ELSE IF Edges(cu, user_id) # {} THEN AlreadyFollowing
    ELSE NoError

Reply(op, cu, user_id, r) == [op |-> op, cu |-> cu, target |-> user_id, result |-> r]

\* follow, up to the existence query: it raises, or goes on to insert.
FollowCheck(t, cu, user_id) ==
    /\ req[t] = Idle
    /\ IF FollowError(cu, user_id) # NoError
       THEN /\ resp' = Reply("follow", cu, user_id, FollowError(cu, user_id))
            /\ UNCHANGED req
       ELSE /\ req' = [req EXCEPT ![t] = [pc |-> "insert", cu |-> cu, target |-> user_id]]
            /\ UNCHANGED resp
    /\ UNCHANGED <<users, follows, posts, now, issued, subIsChecked, scalarRows>>

\* session.add(f); session.commit(): table follow has no unique constraint on
\* (follower_id, followee_id), so the insert always succeeds.
InsertFollow(cu, user_id) ==
    follows \cup {[id |-> NextId(follows), follower_id |-> cu, followee_id |-> user_id]}

FollowInsert(t) ==
    /\ req[t].pc = "insert"
    /\ NextId(follows) <= MaxFollowId
    /\ follows' = InsertFollow(req[t].cu, req[t].target)
    /\ resp' = Reply("follow", req[t].cu, req[t].target, Followed)
    /\ req' = [req EXCEPT ![t] = Idle]
    /\ UNCHANGED <<users, posts, now, issued, subIsChecked, scalarRows>>

-----------------------------------------------------------------------------
(* unfollow *)

\* rel = session.exec(q).first(); if not rel: raise
UnfollowError(cu, user_id) == IF Edges(cu, user_id) = {} THEN NotFollowing ELSE NoError

\* unfollow, up to the query: 404 when it finds no row, else it holds the row.
UnfollowCheck(t, cu, user_id) ==
    /\ req[t] = Idle
    /\ IF UnfollowError(cu, user_id) # NoError
       THEN /\ resp' = Reply("unfollow", cu, user_id, UnfollowError(cu, user_id))
            /\ UNCHANGED req
       ELSE /\ req' = [req EXCEPT ![t] = [pc |-> "delete", cu |-> cu, target |-> user_id,
                                          rel |-> FirstEdge(cu, user_id).id]]
            /\ UNCHANGED resp
    /\ UNCHANGED <<users, follows, posts, now, issued, subIsChecked, scalarRows>>

\* session.delete(rel); session.commit(): DELETE FROM follow WHERE id = rel.id.
\* It removes whichever row carries that id now, and none if there is none.
DeleteFollow(rel) == {r \in follows : r.id # rel}

UnfollowDelete(t) ==
    /\ req[t].pc = "delete"
    /\ follows' = DeleteFollow(req[t].rel)
    /\ resp' = Reply("unfollow", req[t].cu, req[t].target, Unfollowed)
    /\ req' = [req EXCEPT ![t] = Idle]
    /\ UNCHANGED <<users, posts, now, issued, subIsChecked, scalarRows>>

-----------------------------------------------------------------------------
(* create_post *)

\* Post(...) takes created_at from the clock when the object is built; the row
\* is committed later and gets the next id then.  A request built at time ts
\* may commit after requests built later, so a committed row carries any of
\* the times up to the present.
CreatePost(cu, ts) ==
    /\ posts' = Append(posts, [author_id |-> cu, created_at |-> ts])
    /\ UNCHANGED <<users, follows, req, resp, now, issued, subIsChecked, scalarRows>>

-----------------------------------------------------------------------------
(* Passwords and tokens *)

\* line 24, in minutes
ACCESS_TOKEN_EXPIRE_MINUTES == 60 * 24 * 7

\* pwd_context.hash: a bcrypt digest, from which the password cannot be read
\* but against which a password can be verified.
hash_password(password) == <<"bcrypt", password>>

verify_password(plain, hashed) == hashed = <<"bcrypt", plain>>

\* jwt.encode(to_encode, SECRET_KEY): a token carrying the claims, signed with
\* the key of this process.
JwtEncode(claims) == [w |-> "jwt", signed |-> TRUE, claims |-> claims]

\* create_access_token({"sub": u.id}): the claims plus exp = utcnow() + 7 days
create_access_token(sub) ==
    JwtEncode([sub |-> sub, exp |-> now + ACCESS_TOKEN_EXPIRE_MINUTES])

JWTError == [ok |-> FALSE]

\* jwt.decode(token, SECRET_KEY, algorithms=[ALGORITHM]): the claims of a token
\* that parses, carries this process's signature and has not expired; JWTError
\* otherwise.  python-jose also validates the registered claims it finds and
\* raises JWTClaimsError (a JWTError) for a "sub" that is not a string; the
\* tokens of this program carry the user's integer id (lines 170, 180).  The
\* source does not pin the library, so whether that check is made is a
\* property of the build, subIsChecked.
JwtDecode(token) ==
    IF token.w # "jwt" THEN JWTError
    ELSE IF ~token.signed THEN JWTError
    ELSE IF token.claims.exp < now THEN JWTError
    ELSE IF subIsChecked /\ "sub" \in DOMAIN token.claims THEN JWTError
    ELSE [ok |-> TRUE, payload |-> token.claims]

-----------------------------------------------------------------------------
(* The authorization gate *)

\* An Authorization value: absent, or a string.  A string is the sequence of
\* its words and of the runs of whitespace between and around them.
SP == [w |-> " "]
Word(text) == [w |-> text]
NoHeader == [present |-> FALSE, text |-> <<>>]
Header(text) == [present |-> TRUE, text |-> text]

\* str.split(): the words, without the whitespace
Split(text) == SelectSeq(text, LAMBDA x : x # SP)

\* str.lower() on the words that occur
Lower(word) == IF word.w \in {"Bearer", "BEARER", "bearer"} THEN Word("bearer") ELSE word

Unauthorized(detail) == HTTPException(401, detail)

\* What the framework answers when a handler raises anything that is not an
\* HTTPException.
InternalServerError == HTTPException(500, "Internal Server Error")

Resolved(user_id) == [status |-> 200, user |-> user_id]

\* The token's part of the gate, lines 148-158.
UserOfToken(token) ==
    LET decoded == JwtDecode(token)
    IN  IF ~decoded.ok THEN Unauthorized("Token invalid or expired")
        ELSE IF "sub" \notin DOMAIN decoded.payload THEN Unauthorized("Invalid token payload")
        ELSE IF ~UserExists(decoded.payload.sub) THEN Unauthorized("User not found")
        ELSE Resolved(decoded.payload.sub)

\* current_user_from_token.  parts[0] of an empty list raises IndexError,
\* which no handler catches.
current_user_from_token(authorization) ==
    IF ~authorization.present THEN Unauthorized("Missing authorization header")
    ELSE LET parts == Split(authorization.text)
         IN  IF Len(parts) = 0 THEN InternalServerError
             ELSE IF Lower(parts[1]) # Word("bearer") \/ Len(parts) # 2
                  THEN Unauthorized("Invalid authorization header")
             ELSE UserOfToken(parts[2])

\* A request to a gated endpoint, as far as the gate: GET /me.
GateRequest(authorization) ==
    /\ resp' = [op |-> "gate", header |-> authorization,
                result |-> current_user_from_token(authorization)]
    /\ UNCHANGED <<users, follows, posts, req, now, issued, subIsChecked, scalarRows>>

-----------------------------------------------------------------------------
(* register and login *)

DuplicateUsername == HTTPException(400, "Username already taken")
InvalidCredentials == HTTPException(401, "Invalid username or password")
TokenResponse(token) == [status |-> 200, access_token |-> token, token_type |-> "bearer"]

\* select(User).where(User.username == username)
UsersNamed(username) == {i \in UserIds : users[i].username = username}

AuthReply(op, username, r) == [op |-> op, username |-> username, result |-> r]

\* register, up to the lookup: 400 when the name is taken, else on to insert.
RegisterLookup(t, username, password) ==
    /\ req[t] = Idle
    /\ IF UsersNamed(username) # {}
       THEN /\ resp' = AuthReply("register", username, DuplicateUsername)
            /\ UNCHANGED req
       ELSE /\ req' = [req EXCEPT ![t] = [pc |-> "register", username |-> username,
                                          password |-> password]]
            /\ UNCHANGED resp
    /\ UNCHANGED <<users, follows, posts, now, issued, subIsChecked, scalarRows>>

\* session.add(u); session.commit(); the token.  The column username is
\* unique (line 32): the commit of a name taken meanwhile raises
\* IntegrityError, which register does not catch.
RegisterInsert(t) ==
    /\ req[t].pc = "register"
    /\ IF UsersNamed(req[t].username) # {}
       THEN /\ resp' = AuthReply("register", req[t].username, InternalServerError)
            /\ UNCHANGED <<users, issued>>
       ELSE LET token == create_access_token(Len(users) + 1)
            IN  /\ users' = Append(users, [username |-> req[t].username,
                                           hashed_password |-> hash_password(req[t].password)])
                /\ issued' = issued \cup {[token |-> token, owner |-> Len(users) + 1, at |-> now]}
                /\ resp' = AuthReply("register", req[t].username, TokenResponse(token))
    /\ req' = [req EXCEPT ![t] = Idle]
    /\ UNCHANGED <<follows, posts, now, subIsChecked, scalarRows>>

\* login
Login(username, password) ==
    /\ IF \E i \in UsersNamed(username) : verify_password(password, users[i].hashed_password)
       THEN LET id == CHOOSE i \in UsersNamed(username) : TRUE
                token == create_access_token(id)
            IN  /\ issued' = issued \cup {[token |-> token, owner |-> id, at |-> now]}
                /\ resp' = AuthReply("login", username, TokenResponse(token))
       ELSE /\ resp' = AuthReply("login", username, InvalidCredentials)
            /\ UNCHANGED issued
    /\ UNCHANGED <<users, follows, posts, req, now, subIsChecked, scalarRows>>

\* Time passes.
Tick(n) ==
    /\ n > now
    /\ now' = n
    /\ UNCHANGED <<users, follows, posts, req, resp, issued, subIsChecked, scalarRows>>

-----------------------------------------------------------------------------
(* Queries over table post *)
(* The queries take the tables they read as arguments (fs: table follow,   *)
(* ps: table post), so that a property can ask for the answer a query      *)
(* gives in the state after a step as well as in the state before it.      *)

\* The JSON object both listings build from a row (content and image_url are
\* copied from the row and play no part in any ordering).
PostOut(ps, i) == [id |-> i, author_id |-> ps[i].author_id, created_at |-> ps[i].created_at]

\* The rows of S as a sequence, the row that lies Before all others first.
\* Before must be a strict total order on S.
OrderBy(S, Before(_, _)) ==
    [k \in 1..Cardinality(S) |->
        CHOOSE i \in S : Cardinality({j \in S : Before(j, i)}) = k - 1]

\* .offset(offset).limit(limit)
OffsetLimit(s, offset, limit) == SubSeq(s, offset + 1, Min2(Len(s), offset + limit))

\* The timeline ordered oldest first.
TimelineBeforeAscending(ps, i, j) ==
    \/ ps[i].created_at < ps[j].created_at
    \/ ps[i].created_at = ps[j].created_at /\ i < j

\* ORDER BY post.created_at DESC over a scan of the whole table.  SQLite (the
\* engine of line 86) returns rows of equal created_at in the order its scan
\* meets them, which for the table scan is ascending id.
TimelineBefore(ps, i, j) ==
    \/ ps[i].created_at > ps[j].created_at
    \/ ps[i].created_at = ps[j].created_at /\ i < j

ListPostsQuery(ps, limit, offset) ==
    LET Before(i, j) == TimelineBefore(ps, i, j)
        rows == OffsetLimit(OrderBy(DOMAIN ps, Before), offset, limit)
    IN  [k \in DOMAIN rows |-> PostOut(ps, rows[k])]

\* list_posts
ListPosts(limit, offset) == ListPostsQuery(posts, limit, offset)

\* The rows of a set of follow rows in ascending id, the order of the scan.
RECURSIVE ScanOrder(_)
ScanOrder(rows) ==
    IF rows = {} THEN <<>>
    ELSE LET r == CHOOSE x \in rows : \A y \in rows : x.id <= y.id
         IN  <<r>> \o ScanOrder(rows \ {r})

\* select(Follow.followee_id).where(Follow.follower_id == cu): the values of
\* the column, one per row
FolloweeIds(fs, cu) ==
    LET rows == ScanOrder({r \in fs : r.follower_id = cu})
    IN  [k \in DOMAIN rows |-> rows[k].followee_id]

\* [r for (r,) in session.exec(q).all()] takes each row apart as a 1-tuple.
\* Session is SQLModel's (line 19), whose exec hands the rows of a select of
\* one column out as the bare values: taking an int apart raises TypeError on
\* the first row.  An exec that hands out 1-tuples, as SQLAlchemy's execute
\* does, lets the line work; which of the two the installed library does is
\* the build property scalarRows.
UnpackFails(fs, cu) == scalarRows /\ Len(FolloweeIds(fs, cu)) > 0

\* followers: the follower_id of every row whose followee_id is user_id
Followers(user_id) ==
    LET rows == ScanOrder({r \in follows : r.followee_id = user_id})
    IN  [k \in DOMAIN rows |-> rows[k].follower_id]

\* ids = followee_ids + [current_user.id]
FeedIds(fs, cu) == FolloweeIds(fs, cu) \o <<cu>>

\* Post.author_id.in_(ids)
AuthorIn(ps, i, ids) == \E k \in DOMAIN ids : ids[k] = ps[i].author_id

\* ORDER BY post.created_at DESC over the rows the index on author_id (line
\* 46) yields: rows of equal created_at come by author_id, then id.
FeedBefore(ps, i, j) ==
    \/ ps[i].created_at > ps[j].created_at
    \/ /\ ps[i].created_at = ps[j].created_at
       /\ \/ ps[i].author_id < ps[j].author_id
          \/ ps[i].author_id = ps[j].author_id /\ i < j

FeedQuery(fs, ps, cu, limit, offset) ==
    LET ids == FeedIds(fs, cu)
        Before(i, j) == FeedBefore(ps, i, j)
        matching == {i \in DOMAIN ps : AuthorIn(ps, i, ids)}
        rows == IF Len(ids) = 0 THEN <<>>
                ELSE OffsetLimit(OrderBy(matching, Before), offset, limit)
    IN  [k \in DOMAIN rows |-> PostOut(ps, rows[k])]

Ok(body) == [status |-> 200, body |-> body]

\* feed on the tables fs and ps: the page, or the 500 of the uncaught TypeError
FeedOn(fs, ps, cu, limit, offset) ==
    IF UnpackFails(fs, cu) THEN InternalServerError
    ELSE Ok(FeedQuery(fs, ps, cu, limit, offset))

\* feed
Feed(cu, limit, offset) == FeedOn(follows, posts, cu, limit, offset)

-----------------------------------------------------------------------------
(* Specifications *)

RegisteredUser(i) == [username |-> i, hashed_password |-> <<"bcrypt", i>>]

InitSocial ==
    /\ users = [i \in 1..NUsers |-> RegisteredUser(i)]
    /\ follows = {}
    /\ posts = <<>>
    /\ req = [t \in Threads |-> Idle]
    /\ resp = NoResp
    /\ now = 0
    /\ issued = {}
    /\ subIsChecked = FALSE
    /\ scalarRows \in BOOLEAN

\* user ids a client may name: the registered ones and one that is not
TargetIds == 1..(NUsers + 1)

Next ==
    \/ \E t \in Threads, cu \in UserIds, u \in TargetIds : FollowCheck(t, cu, u)
    \/ \E t \in Threads : FollowInsert(t)
    \/ \E t \in Threads, cu \in UserIds, u \in TargetIds : UnfollowCheck(t, cu, u)
    \/ \E t \in Threads : UnfollowDelete(t)
    \/ \E cu \in UserIds, ts \in Times : Len(posts) < MaxPosts /\ CreatePost(cu, ts)

Spec == InitSocial /\ [][Next]_vars

\* Accounts and tokens: the store starts empty, clients register and log in
\* concurrently, time passes, and gated requests arrive with every kind of
\* Authorization value.
InitAuth ==
    /\ users = <<>>
    /\ follows = {}
    /\ posts = <<>>
    /\ req = [t \in Threads |-> Idle]
    /\ resp = NoResp
    /\ now = 0
    /\ issued = {}
    /\ subIsChecked \in BOOLEAN
    /\ scalarRows = TRUE

Usernames == 1..NUsers
Passwords == 1..NPasswords

\* The instants looked at: the times of issue, and the minutes around the
\* expiry of a token issued then.
Instants ==
    (0..MaxIssueTime) \cup
    {t + ACCESS_TOKEN_EXPIRE_MINUTES + d : t \in 0..MaxIssueTime, d \in {-1, 0, 1}}

\* Tokens a client may present: the tokens issued, copies of them with a
\* broken signature, a string that is no JWT, and tokens signed with the
\* process's key by another holder of it: without a subject, or for a user
\* id that is not registered.
PresentedTokens ==
    {e.token : e \in issued}
    \cup {[e.token EXCEPT !.signed = FALSE] : e \in issued}
    \cup {Word("garbage")}
    \cup {JwtEncode([exp |-> ACCESS_TOKEN_EXPIRE_MINUTES])}
    \cup {JwtEncode([sub |-> NUsers + 1, exp |-> ACCESS_TOKEN_EXPIRE_MINUTES])}

PresentedHeaders ==
    {NoHeader, Header(<<>>), Header(<<SP>>), Header(<<Word("Bearer")>>)}
    \cup {Header(<<Word("Bearer"), SP, tk>>) : tk \in PresentedTokens}
    \cup {Header(<<SP, Word("bearer"), SP, tk, SP>>) : tk \in PresentedTokens}
    \cup {Header(<<Word("Basic"), SP, tk>>) : tk \in PresentedTokens}
    \cup {Header(<<Word("Bearer"), SP, tk, SP, Word("x")>>) : tk \in PresentedTokens}

NextAuth ==
    \/ \E t \in Threads, u \in Usernames, p \in Passwords :
           now <= MaxIssueTime /\ RegisterLookup(t, u, p)
    \/ \E t \in Threads : now <= MaxIssueTime /\ RegisterInsert(t)
    \/ \E u \in Usernames, p \in Passwords : now <= MaxIssueTime /\ Login(u, p)
    \/ \E n \in Instants : Tick(n)
    \/ \E h \in PresentedHeaders : GateRequest(h)

AuthSpec == InitAuth /\ [][NextAuth]_vars

\* The requests served one after another: a single worker, so that a handler's
\* read and its write are never separated by another request.
InitSeq ==
    /\ users = [i \in 1..(NUsers + 1) |-> RegisteredUser(i)]
    /\ follows = {}
    /\ posts = <<>>
    /\ req = [t \in Threads |-> Idle]
    /\ resp = NoResp
    /\ now = 0
    /\ issued = {}
    /\ subIsChecked = FALSE
    /\ scalarRows \in BOOLEAN

SeqTargetIds == 1..(NUsers + 2)

NextSeq ==
    \/ \E cu \in UserIds, u \in SeqTargetIds : FollowCheck(1, cu, u)
    \/ FollowInsert(1)
    \/ \E cu \in UserIds, u \in SeqTargetIds : UnfollowCheck(1, cu, u)
    \/ UnfollowDelete(1)
    \/ \E cu \in UserIds, ts \in Times : Len(posts) < MaxSeqPosts /\ CreatePost(cu, ts)

SeqSpec == InitSeq /\ [][NextSeq]_vars

\* feed, as a request: the page goes out and the store stays as it is.
FeedRequest(cu, limit, offset) ==
    /\ resp' = [op |-> "feed", cu |-> cu, limit |-> limit, offset |-> offset,
                result |-> Feed(cu, limit, offset)]
    /\ UNCHANGED <<users, follows, posts, req, now, issued, subIsChecked, scalarRows>>

\* The feed: user 1 follows and unfollows user 2 in concurrent requests, both
\* users post, and both read their feeds.
NextFeed ==
    \/ \E t \in Threads : FollowCheck(t, 1, 2)
    \/ \E t \in Threads : FollowInsert(t)
    \/ \E t \in Threads : UnfollowCheck(t, 1, 2)
    \/ \E t \in Threads : UnfollowDelete(t)
    \/ \E cu \in UserIds, ts \in Times : Len(posts) < MaxPosts /\ CreatePost(cu, ts)
    \/ \E cu \in UserIds, limit \in PageArgs, offset \in PageArgs : FeedRequest(cu, limit, offset)

FeedSpec == InitSocial /\ [][NextFeed]_vars

\* The public timeline alone: posts are created and pages of them are read.
ListPostsRequest(limit, offset) ==
    /\ resp' = [op |-> "list_posts", limit |-> limit, offset |-> offset,
                body |-> ListPosts(limit, offset)]
    /\ UNCHANGED <<users, follows, posts, req, now, issued, subIsChecked, scalarRows>>

NextTimeline ==
    \/ \E cu \in UserIds, ts \in Times : Len(posts) < MaxTimeline /\ CreatePost(cu, ts)
    \/ \E limit \in PageArgs, offset \in PageArgs : ListPostsRequest(limit, offset)

TimelineSpec == InitSocial /\ [][NextTimeline]_vars

-----------------------------------------------------------------------------
(* Properties *)

\* The ordered pairs (follower, followee) joined by at least one follow row.
EdgeSet == {<<r.follower_id, r.followee_id>> : r \in follows}

\* C1: in every reachable state, whatever the interleaving of follow and
\* unfollow requests, there is at most one Follow row per ordered pair
\* (follower_id, followee_id).
C1_AtMostOneEdgePerPair ==
    \A r \in follows, q \in follows :
        (r.follower_id = q.follower_id /\ r.followee_id = q.followee_id) => r = q

\* C5: served one after another, follow(A,B) fails with SelfFollow if A = B,
\* else with TargetNotFound if B is no user, else with AlreadyFollowing if the
\* edge exists, and otherwise creates exactly the edge (A,B); unfollow(A,B)
\* fails with NotFollowing if there is no edge and otherwise deletes it; after
\* a successful follow a second follow fails with AlreadyFollowing, after a
\* successful unfollow a second unfollow fails with NotFollowing, and a failing
\* call leaves the Follow rows unchanged.
C5_FollowOutcome(a, b) ==
    IF a = b THEN SelfFollow
    ELSE IF b \notin UserIds THEN TargetNotFound
    ELSE IF <<a, b>> \in EdgeSet THEN AlreadyFollowing
    ELSE Followed

C5_UnfollowOutcome(a, b) == IF <<a, b>> \in EdgeSet THEN Unfollowed ELSE NotFollowing

C5_Step ==
    \A a \in UserIds, b \in SeqTargetIds :
        /\ (resp' # resp /\ resp'.op = "follow" /\ resp'.cu = a /\ resp'.target = b) =>
                /\ resp'.result = C5_FollowOutcome(a, b)
                /\ IF resp'.result = Followed
                   THEN /\ EdgeSet' = EdgeSet \cup {<<a, b>>}
                        /\ Cardinality(follows') = Cardinality(follows) + 1
                        /\ FollowError(a, b)' = AlreadyFollowing
                   ELSE follows' = follows
        /\ (resp' # resp /\ resp'.op = "unfollow" /\ resp'.cu = a /\ resp'.target = b) =>
                /\ resp'.result = C5_UnfollowOutcome(a, b)
                /\ IF resp'.result = Unfollowed
                   THEN /\ EdgeSet' = EdgeSet \ {<<a, b>>}
                        /\ Cardinality(follows') = Cardinality(follows) - 1
                        /\ UnfollowError(a, b)' = NotFollowing
                   ELSE follows' = follows

C5_FollowUnfollowContract == [][C5_Step]_vars

\* A second follow(A,B) has just failed with AlreadyFollowing while the edge
\* made by the first is in the store.
C5_Witness ==
    /\ resp.op = "follow"
    /\ resp.result = AlreadyFollowing
    /\ <<resp.cu, resp.target>> \in EdgeSet
    /\ Cardinality(follows) = 2

\* C10: once unfollow(A,B) has succeeded, and until a later follow(A,B)
\* succeeds, there is no Follow row (A,B): B is not among A's followees, A is
\* not among B's followers, another unfollow(A,B) fails with NotFollowing and
\* A's feed holds no post of B.  Stated for the time from the successful
\* unfollow to the next response of a follow or unfollow request.
C10_UnfollowedStaysUnfollowed ==
    (resp.op = "unfollow" /\ resp.result = Unfollowed) =>
        LET a == resp.cu
            b == resp.target
        IN  /\ Edges(a, b) = {}
            /\ \A k \in DOMAIN FolloweeIds(follows, a) : FolloweeIds(follows, a)[k] # b
            /\ \A k \in DOMAIN Followers(b) : Followers(b)[k] # a
            /\ UnfollowError(a, b) = NotFollowing
            /\ LET r == Feed(a, Len(posts), 0)
               IN  r.status = 200 => \A k \in DOMAIN r.body : r.body[k].author_id # b

\* The users whose posts A's feed is to show: A and everyone A follows.
FeedSources(a) == {a} \cup {r.followee_id : r \in {q \in follows : q.follower_id = a}}

PostsOf(authors) == {i \in DOMAIN posts : posts[i].author_id \in authors}

\* Every arrangement of the posts S with created_at descending.
NewestFirst(S) ==
    {s \in [1..Cardinality(S) -> S] :
        \A i \in DOMAIN s, j \in DOMAIN s :
            i < j => (s[i] # s[j] /\ posts[s[i]].created_at >= posts[s[j]].created_at)}

Positive(n) == IF n > 0 THEN n ELSE 0

\* The posts at positions [offset, offset + limit) of s, as the API shows them.
Window(s, offset, limit) ==
    [k \in 1..Positive(Min2(limit, Len(s) - offset)) |-> PostOut(posts, s[offset + k])]

\* C2: for every user A and every limit and offset, feed(A, limit, offset) is
\* the posts at positions [offset, offset+limit) of the posts of A and of A's
\* followees arranged by created_at descending; it holds no post of any other
\* author, and with no followees it is A's own posts, newest first.
C2_FeedIsWindow ==
    \A a \in UserIds :
        LET merged == NewestFirst(PostsOf(FeedSources(a)))
            own == NewestFirst(PostsOf({a}))
        IN  \A limit \in PageArgs, offset \in PageArgs :
                LET r == Feed(a, limit, offset)
                IN  /\ r.status = 200
                    /\ \E s \in merged : r.body = Window(s, offset, limit)
                    /\ \A k \in DOMAIN r.body : r.body[k].author_id \in FeedSources(a)
                    /\ FeedSources(a) = {a} =>
                           \E s \in own : r.body = Window(s, offset, limit)

RECURSIVE IsSubseq(_, _)
\* s can be had from t by leaving elements out
IsSubseq(s, t) ==
    IF s = <<>> THEN TRUE
    ELSE IF t = <<>> THEN FALSE
    ELSE IF Head(s) = Head(t) THEN IsSubseq(Tail(s), Tail(t))
    ELSE IsSubseq(s, Tail(t))

\* The step in which follow(a, b) answers that it succeeded.
FollowSucceeds(a, b) == resp' # resp /\ resp' = Reply("follow", a, b, Followed)

\* C3: when follow(A,B) succeeds and no post is created by it, the feed
\* returned to A after it is the time-merged union of the posts of A and of
\* the users A then follows, B among them, newest first, and holds every
\* post of the feed returned to A before it, in the same order.  Read for
\* the complete feed (offset 0, limit the number of posts), the reading in
\* which paging cannot cut a post off.
C3_FeedAfterFollow ==
    [][\A a \in UserIds, b \in UserIds :
          FollowSucceeds(a, b) =>
              LET before == Feed(a, Len(posts), 0)
                  after == FeedOn(follows', posts', a, Len(posts), 0)
              IN  /\ posts' = posts
                  /\ after.status = 200
                  /\ \E s \in NewestFirst(PostsOf(FeedSources(a) \cup {b})) :
                         after.body = Window(s, 0, Len(posts))
                  /\ before.status = 200 => IsSubseq(before.body, after.body)]_vars

-----------------------------------------------------------------------------
(* Accounts and tokens *)

\* The header is the scheme Bearer and one token, the token is a JWT signed
\* by this process, not expired, and its subject is a registered user.
WellFormedBearer(h) ==
    /\ h.present
    /\ Len(Split(h.text)) = 2
    /\ Lower(Split(h.text)[1]) = Word("bearer")
    /\ LET tk == Split(h.text)[2]
       IN  /\ tk.w = "jwt"
           /\ tk.signed
           /\ tk.claims.exp >= now
           /\ "sub" \in DOMAIN tk.claims
           /\ UserExists(tk.claims.sub)

C4_Step ==
    (resp' # resp /\ resp'.op = "gate") =>
        \E h \in PresentedHeaders :
            /\ resp'.header = h
            /\ resp'.result.status \in {200, 401}
            /\ resp'.result.status = 200 =>
                   /\ WellFormedBearer(h)
                   /\ resp'.result.user = Split(h.text)[2].claims.sub
            /\ UNCHANGED <<users, follows, posts>>

\* C4: whatever Authorization value a gated request carries, the gate either
\* resolves a user or fails with 401 Unauthorized and with nothing else; it
\* resolves a user only for a well-formed "Bearer <token>" whose token is
\* valid, unexpired and names an existing user, and then that user; and the
\* request leaves the store as it was.
C4_GateFailsOnlyWith401 == [][C4_Step]_vars

\* C6: every register call answers with the token of the user it created or
\* with DuplicateUsername (400), with no other error, also when the lookups
\* and inserts of several calls interleave; and no two users share a username.
C6_RegisterOutcome ==
    /\ resp.op = "register" =>
           \/ resp.result.status = 200
           \/ resp.result = DuplicateUsername
    /\ \A i, j \in UserIds : users[i].username = users[j].username => i = j

\* C7: a token issued by register or login for user A, presented as
\* "Bearer <token>" before its expiry (issue time + 7 days), resolves to A;
\* presented after it, it is refused with 401.
C7_TokenResolvesToOwner ==
    \A e \in issued :
        LET result == current_user_from_token(Header(<<Word("Bearer"), SP, e.token>>))
            expiry == e.at + ACCESS_TOKEN_EXPIRE_MINUTES
        IN  /\ now < expiry => result = Resolved(e.owner)
            /\ now > expiry => result.status = 401

====
